---- MODULE Spec2Model ----
(***************************************************************************)
(* Model of the hodoku procedural macros (src/src/lib.rs): the two entry   *)
(* points `function` and `expr`, and the rewrite routine `process`, which  *)
(* turns every `?` punctuation token into `.unwrap()`.                     *)
(*                                                                         *)
(* A token stream is a sequence of token trees.  A token tree is a record  *)
(* with a field `kind`:                                                    *)
(*   Group   [kind, delim, stream, span]                                   *)
(*   Punct   [kind, ch, spacing, span]                                     *)
(*   Ident   [kind, name, span]                                            *)
(*   Literal [kind, text, span]                                            *)
(* `process` builds its result with TokenStream::from_iter over a closure  *)
(* (iter::from_fn); every call of that closure is one step of the model,   *)
(* and a nested call of `process` is a new frame on `stack`.               *)
(***************************************************************************)
EXTENDS Naturals, Sequences, FiniteSets, Bags, TLC

VARIABLES pc, entry, args, item, stack, output, pass

vars == <<pc, entry, args, item, stack, output, pass>>

(***************************************************************************)
(* Bounds of the model.                                                    *)
(***************************************************************************)
\* total number of tokens (at all depths) of an input item
MaxTokens == 3
\* deepest nesting of groups of an input item
MaxDepth == 2

(***************************************************************************)
(* Tokens (proc_macro::TokenTree).                                         *)
(***************************************************************************)
\* Span::call_site(): the span a token built with ::new carries
CallSite == <<>>

Punct(ch, spacing, span) ==
    [kind |-> "Punct", ch |-> ch, spacing |-> spacing, span |-> span]

Ident(name, span) ==
    [kind |-> "Ident", name |-> name, span |-> span]

Literal(text, span) ==
    [kind |-> "Literal", text |-> text, span |-> span]

Group(delim, stream, span) ==
    [kind |-> "Group", delim |-> delim, stream |-> stream, span |-> span]

\* Group::new(delimiter, stream): the new group carries the call-site span
GroupNew(delim, stream) ==
    Group(delim, stream, CallSite)

\* Punct::new(ch, spacing): the new punctuation carries the call-site span
PunctNew(ch, spacing) ==
    Punct(ch, spacing, CallSite)

\* Group::set_span / Punct::set_span
SetSpan(tt, span) ==
    [tt EXCEPT !.span = span]

Delimiters == {"Parenthesis", "Brace", "Bracket", "None"}

(***************************************************************************)
(* The inputs: every token stream of at most MaxTokens tokens nested at    *)
(* most MaxDepth deep.  As in a stream lexed from source text, every token *)
(* carries its own span: here, the path of indices that leads to it.       *)
(***************************************************************************)
Leaves ==
    { Punct("?", "Alone", CallSite), Punct("?", "Joint", CallSite),
      Punct(".", "Joint", CallSite), Ident("x", CallSite),
      Literal("42", CallSite) }

RECURSIVE TokenCount(_)
TokenCount(s) ==
    IF s = <<>> THEN 0
    ELSE 1 + (IF Head(s).kind = "Group" THEN TokenCount(Head(s).stream) ELSE 0)
           + TokenCount(Tail(s))

RECURSIVE StreamsOf(_, _)
StreamsOf(n, d) ==
    IF n = 0 THEN {<<>>}
    ELSE LET groups == IF d = 0 THEN {}
                       ELSE { Group(dl, s, CallSite) :
                                dl \in Delimiters, s \in StreamsOf(n - 1, d - 1) }
         IN  {<<>>} \cup
             UNION { { <<t>> \o r : r \in StreamsOf(n - TokenCount(<<t>>), d) } :
                     t \in Leaves \cup groups }

RECURSIVE Located(_, _)
Located(s, path) ==
    [ i \in 1..Len(s) |->
        IF s[i].kind = "Group"
        THEN Group(s[i].delim, Located(s[i].stream, path \o <<i>>), path \o <<i>>)
        ELSE SetSpan(s[i], path \o <<i>>) ]

Items == { Located(s, <<>>) : s \in StreamsOf(MaxTokens, MaxDepth) }

\* the configuration sequences handed to the attribute
ArgsInputs ==
    { <<>>,
      <<Ident("test", <<0, 1>>)>>,
      <<Ident("a", <<0, 1>>), Punct("?", "Alone", <<0, 2>>)>> }

(***************************************************************************)
(* process: the state of one invocation (a frame).                         *)
(*   it   the tokens `it` has not yet yielded                              *)
(*   tmp  the pending buffer, Option<array::IntoIter<TokenTree, 2>>        *)
(*   out  the tokens the closure has returned so far                       *)
(*   g    the group whose stream a nested invocation is processing         *)
(***************************************************************************)
None == [some |-> FALSE, buf |-> <<>>]

Some(buf) == [some |-> TRUE, buf |-> buf]

NoGroup == [kind |-> "NoGroup"]

\* lines 141-142: a fresh invocation of process on `stream`
Frame(stream) ==
    [it |-> stream, tmp |-> None, out |-> <<>>, g |-> NoGroup]

\* faulty variant: only a `?` followed by a space is taken for the marker
IsMarkerAlone(punct) ==
    punct.ch = "?" /\ punct.spacing = "Alone"

\* line 159: punct.as_char() == '?'
IsMarker(punct) ==
    punct.ch = "?"

\* lines 160-161: the empty parenthesised group, at the marker's span
EmptyGroup(punct) ==
    SetSpan(GroupNew("Parenthesis", <<>>), punct.span)

\* line 165: Ident::new("unwrap", punct.span())
UnwrapIdent(punct) ==
    Ident("unwrap", punct.span)

\* faulty variant: the `.` is buffered as well as returned
BufferedWithFirst(punct) ==
    <<SetSpan(PunctNew(".", "Joint"), punct.span),
      UnwrapIdent(punct), EmptyGroup(punct)>>

\* lines 163-169: the two tokens put in the pending buffer
Buffered(punct) ==
    <<UnwrapIdent(punct), EmptyGroup(punct)>>

\* faulty variant: the `.` is built with Spacing::Alone
FirstAlone(punct) ==
    SetSpan(PunctNew(".", "Alone"), punct.span)

\* lines 171-173: the token returned when the marker is read
First(punct) ==
    SetSpan(PunctNew(".", "Joint"), punct.span)

\* faulty variant: every group is returned with parentheses
RegroupParenthesis(g, inner) ==
    GroupNew("Parenthesis", inner)

\* faulty variant: the group is returned with the stream it came with
RegroupUnprocessed(g, inner) ==
    GroupNew(g.delim, g.stream)

\* lines 154-157: the group returned for an input group g
Regroup(g, inner) ==
    GroupNew(g.delim, inner)

\* faulty variant: punctuation is built anew, with Spacing::Alone
UnchangedRespaced(tt) ==
    IF tt.kind = "Punct" THEN Punct(tt.ch, "Alone", tt.span) ELSE tt

\* lines 175, 178: any other token is returned as it is
Unchanged(tt) ==
    tt

\* faulty variant: the two tokens are put back in front of the input, where
\* they are read again, instead of in the buffer
AfterMarkerRescan(f, punct) ==
    [f EXCEPT !.it = Buffered(punct) \o @,
              !.out = Append(@, First(punct))]

\* lines 163-173: the frame after the marker branch of the closure
AfterMarker(f, punct) ==
    [f EXCEPT !.tmp = Some(Buffered(punct)),
              !.out = Append(@, First(punct))]

\* faulty variant: a single argument is let through
HasArgsSecond(a) ==
    Len(a) > 1

\* line 116: args.into_iter().next() is Some(..)
HasArgs(a) ==
    Len(a) > 0

Top == stack[Len(stack)]

SetTop(f) == [stack EXCEPT ![Len(stack)] = f]

(***************************************************************************)
(* Initial state: the host is about to expand one macro invocation.        *)
(***************************************************************************)
Init ==
    /\ pc = "start"
    /\ entry = "none"
    /\ args = <<>>
    /\ item \in Items
    /\ stack = <<>>
    /\ output = <<>>
    /\ pass = 1

(***************************************************************************)
(* The entry points.                                                       *)
(***************************************************************************)
\* lines 115-121
function ==
    /\ pc = "start"
    /\ \E a \in ArgsInputs :
        /\ args' = a
        /\ entry' = "function"
        /\ IF HasArgs(a)
           THEN /\ pc' = "panicked"
                /\ stack' = <<>>
           ELSE /\ pc' = "running"
                /\ stack' = <<Frame(item)>>
    /\ UNCHANGED <<item, output, pass>>

\* lines 136-138
expr ==
    /\ pc = "start"
    /\ entry' = "expr"
    /\ pc' = "running"
    /\ stack' = <<Frame(item)>>
    /\ UNCHANGED <<args, item, output, pass>>

(***************************************************************************)
(* One call of the closure of process (lines 144-180), by its branches.    *)
(***************************************************************************)
\* lines 145-148: the buffer still holds a token, which is returned
next_buffered ==
    /\ pc = "running"
    /\ Top.tmp.some /\ Top.tmp.buf # <<>>
    /\ stack' = SetTop([Top EXCEPT !.tmp = Some(Tail(Top.tmp.buf)),
                                   !.out = Append(@, Head(Top.tmp.buf))])
    /\ UNCHANGED <<pc, entry, args, item, output, pass>>

\* the buffer is absent or exhausted: line 150 clears it, line 153 reads on
CanRead == ~Top.tmp.some \/ Top.tmp.buf = <<>>

\* line 153, `it.next()?` is None: from_iter ends and process returns; the
\* caller is the entry point, or the closure of the enclosing invocation,
\* which returns the rebuilt group (lines 154-157)
next_end ==
    /\ pc = "running"
    /\ CanRead
    /\ Top.it = <<>>
    /\ IF Len(stack) = 1
       THEN /\ pc' = "done"
            /\ output' = Top.out
            /\ stack' = <<>>
       ELSE LET caller == stack[Len(stack) - 1]
                rest == SubSeq(stack, 1, Len(stack) - 2)
            IN  /\ stack' = Append(rest,
                      [caller EXCEPT !.out = Append(@, Regroup(caller.g, Top.out)),
                                     !.g = NoGroup])
                /\ UNCHANGED <<pc, output>>
    /\ UNCHANGED <<entry, args, item, pass>>

\* lines 154-157: a group is read and process is called on its stream
next_group ==
    /\ pc = "running"
    /\ CanRead
    /\ Top.it # <<>>
    /\ Head(Top.it).kind = "Group"
    /\ stack' = Append(SetTop([Top EXCEPT !.tmp = None,
                                          !.it = Tail(@),
                                          !.g = Head(Top.it)]),
                       Frame(Head(Top.it).stream))
    /\ UNCHANGED <<pc, entry, args, item, output, pass>>

\* lines 158-173: a `?` is read
next_marker ==
    /\ pc = "running"
    /\ CanRead
    /\ Top.it # <<>>
    /\ Head(Top.it).kind = "Punct"
    /\ IsMarker(Head(Top.it))
    /\ stack' = SetTop(AfterMarker([Top EXCEPT !.tmp = None, !.it = Tail(@)],
                                   Head(Top.it)))
    /\ UNCHANGED <<pc, entry, args, item, output, pass>>

\* lines 174-176: any other punctuation is read
next_punct ==
    /\ pc = "running"
    /\ CanRead
    /\ Top.it # <<>>
    /\ Head(Top.it).kind = "Punct"
    /\ ~IsMarker(Head(Top.it))
    /\ stack' = SetTop([Top EXCEPT !.tmp = None,
                                   !.it = Tail(@),
                                   !.out = Append(@, Unchanged(Head(Top.it)))])
    /\ UNCHANGED <<pc, entry, args, item, output, pass>>

\* line 178: an identifier or a literal is read
next_other ==
    /\ pc = "running"
    /\ CanRead
    /\ Top.it # <<>>
    /\ Head(Top.it).kind \in {"Ident", "Literal"}
    /\ stack' = SetTop([Top EXCEPT !.tmp = None,
                                   !.it = Tail(@),
                                   !.out = Append(@, Unchanged(Head(Top.it)))])
    /\ UNCHANGED <<pc, entry, args, item, output, pass>>

closure ==
    \/ next_buffered
    \/ next_end
    \/ next_group
    \/ next_marker
    \/ next_punct
    \/ next_other

\* lines 136-138, once more: the host expands an expr!(..) whose input is
\* the output of the first expansion, as in expr!(expr!(..))
reapply ==
    /\ pc = "done"
    /\ pass = 1
    /\ pass' = 2
    /\ entry' = "expr"
    /\ item' = output
    /\ output' = <<>>
    /\ pc' = "running"
    /\ stack' = <<Frame(output)>>
    /\ UNCHANGED args

Next ==
    \/ function
    \/ expr
    \/ next_buffered
    \/ next_end
    \/ next_group
    \/ next_marker
    \/ next_punct
    \/ next_other
    \/ reapply

Spec == Init /\ [][Next]_vars

(***************************************************************************)
(* process as a function: the stream TokenStream::from_iter collects from  *)
(* the closure, token by token (lines 140-181).                            *)
(***************************************************************************)
RECURSIVE process(_)
process(s) ==
    IF s = <<>> THEN <<>>
    ELSE LET tt == Head(s)
         IN  (IF tt.kind = "Group"
                THEN <<Regroup(tt, process(tt.stream))>>
              ELSE IF tt.kind = "Punct" /\ IsMarker(tt)
                THEN <<First(tt)>> \o Buffered(tt)
              ELSE <<Unchanged(tt)>>)
             \o process(Tail(s))

(***************************************************************************)
(* Vocabulary of the properties.                                           *)
(***************************************************************************)
\* the marker: a punctuation token whose character is `?`
IsMarkerToken(t) == t.kind = "Punct" /\ t.ch = "?"

IsGroupToken(t) == t.kind = "Group"

\* the three tokens that stand for a marker with the given span
DotToken(span) ==
    [kind |-> "Punct", ch |-> ".", spacing |-> "Joint", span |-> span]

UnwrapToken(span) ==
    [kind |-> "Ident", name |-> "unwrap", span |-> span]

CallToken(span) ==
    [kind |-> "Group", delim |-> "Parenthesis", stream |-> <<>>, span |-> span]

Expansion(span) == <<DotToken(span), UnwrapToken(span), CallToken(span)>>

\* markers among the tokens of one level
RECURSIVE NumMarkers(_)
NumMarkers(s) ==
    IF s = <<>> THEN 0
    ELSE (IF IsMarkerToken(Head(s)) THEN 1 ELSE 0) + NumMarkers(Tail(s))

\* where the output of the i-th token of s starts in the output of s
OutPos(s, i) == i + 2 * NumMarkers(SubSeq(s, 1, i - 1))

RECURSIVE HasMarkerDeep(_)
HasMarkerDeep(s) ==
    \E i \in 1..Len(s) :
        \/ IsMarkerToken(s[i])
        \/ IsGroupToken(s[i]) /\ HasMarkerDeep(s[i].stream)

Max(a, b) == IF a >= b THEN a ELSE b

\* nesting depth of the groups of a stream
RECURSIVE Depth(_)
Depth(s) ==
    IF s = <<>> THEN 0
    ELSE Max(IF IsGroupToken(Head(s)) THEN 1 + Depth(Head(s).stream) ELSE 0,
             Depth(Tail(s)))

\* a stream without its spans
RECURSIVE EraseSpans(_)
EraseSpans(s) ==
    [ i \in 1..Len(s) |->
        IF IsGroupToken(s[i])
        THEN [kind |-> "Group", delim |-> s[i].delim,
              stream |-> EraseSpans(s[i].stream), span |-> <<>>]
        ELSE [s[i] EXCEPT !.span = <<>>] ]

Done == pc = "done"

(***************************************************************************)
(* C1.  Every `?` punctuation token of the item, whatever its spacing and  *)
(* its position (the first token included), is replaced by exactly three   *)
(* tokens, in this order: a Joint `.`, the identifier `unwrap`, and an     *)
(* empty parenthesised group, all three with the span of the `?`.  This    *)
(* holds through `function` and through `expr`, and at every depth.        *)
(***************************************************************************)
RECURSIVE MarkersExpanded(_, _)
MarkersExpanded(in, out) ==
    /\ Len(out) = Len(in) + 2 * NumMarkers(in)
    /\ \A i \in 1..Len(in) :
          LET p == OutPos(in, i)
          IN  /\ IsMarkerToken(in[i]) =>
                  /\ p + 2 <= Len(out)
                  /\ SubSeq(out, p, p + 2) = Expansion(in[i].span)
              /\ IsGroupToken(in[i]) =>
                  /\ p <= Len(out)
                  /\ IsGroupToken(out[p])
                  /\ MarkersExpanded(in[i].stream, out[p].stream)

C1_MarkerExpansion ==
    Done => /\ entry \in {"function", "expr"}
            /\ MarkersExpanded(item, output)

\* a Joint `?` as the very first token, followed by more, through `function`
C1_Witness ==
    /\ Done /\ pass = 1 /\ entry = "function"
    /\ Len(item) >= 2
    /\ IsMarkerToken(item[1]) /\ item[1].spacing = "Joint"
    /\ SubSeq(output, 1, 3) = Expansion(item[1].span)

(***************************************************************************)
(* C2.  An item with no `?` token at any depth is returned exactly as it   *)
(* is: the output equals the input.                                        *)
(***************************************************************************)
C2_NoMarkerIdentity ==
    (Done /\ ~HasMarkerDeep(item)) => output = item

(***************************************************************************)
(* C3.  `function` panics whenever args holds a token, and then process is *)
(* never invoked; with empty args it returns process(item), which is what  *)
(* `expr` returns for the same item.                                       *)
(***************************************************************************)
C3_ArgumentRejection ==
    /\ (entry = "function" /\ Len(args) >= 1) =>
            /\ pc = "panicked"
            /\ stack = <<>> /\ output = <<>> /\ pass = 1
    /\ pc = "panicked" => (entry = "function" /\ Len(args) >= 1)
    /\ (Done /\ pass = 1) =>
            /\ entry = "function" => args = <<>>
            /\ output = process(item)

\* both halves: a panic with one argument is told apart from a run without
C3_Witness ==
    /\ pc = "panicked"
    /\ Len(args) = 1
    /\ HasMarkerDeep(item)

(***************************************************************************)
(* C4.  A `?` inside nested groups is expanded in place, as a `?` at the   *)
(* top level is; every group is returned with the delimiter it had, at the *)
(* position of the input group, and its inner stream is process applied to *)
(* the inner stream of the input group.                                    *)
(***************************************************************************)
RECURSIVE GroupsKept(_, _)
GroupsKept(in, out) ==
    \A i \in 1..Len(in) :
        LET p == OutPos(in, i)
        IN  /\ IsMarkerToken(in[i]) =>
                /\ p + 2 <= Len(out)
                /\ SubSeq(out, p, p + 2) = process(<<in[i]>>)
            /\ IsGroupToken(in[i]) =>
                /\ p <= Len(out)
                /\ IsGroupToken(out[p])
                /\ out[p].delim = in[i].delim
                /\ out[p].stream = process(in[i].stream)
                /\ GroupsKept(in[i].stream, out[p].stream)

C4_NestedExpansion ==
    Done => GroupsKept(item, output)

\* a `?` two groups deep, the two groups with different delimiters
C4_Witness ==
    /\ Done /\ pass = 1
    /\ \E i \in 1..Len(item) :
        /\ IsGroupToken(item[i])
        /\ item[i].delim # "Parenthesis"
        /\ \E j \in 1..Len(item[i].stream) :
            /\ IsGroupToken(item[i].stream[j])
            /\ item[i].stream[j].delim # item[i].delim
            /\ \E k \in 1..Len(item[i].stream[j].stream) :
                IsMarkerToken(item[i].stream[j].stream[k])

(***************************************************************************)
(* C5.  At every level, n tokens of which k are `?` give n + 2k tokens:    *)
(* the i-th token is output where the outputs of the tokens before it end, *)
(* a `?` as three tokens and any other token as one, in the input's order. *)
(***************************************************************************)
RECURSIVE LevelsCounted(_, _)
LevelsCounted(in, out) ==
    /\ Len(out) = Len(in) + 2 * NumMarkers(in)
    /\ \A i \in 1..Len(in) :
        LET p == OutPos(in, i)
        IN  IF IsMarkerToken(in[i])
            THEN /\ out[p].kind = "Punct" /\ out[p].ch = "."
                 /\ out[p + 1].kind = "Ident" /\ out[p + 1].name = "unwrap"
                 /\ out[p + 2].kind = "Group" /\ out[p + 2].stream = <<>>
            ELSE IF IsGroupToken(in[i])
            THEN /\ IsGroupToken(out[p])
                 /\ LevelsCounted(in[i].stream, out[p].stream)
            ELSE out[p] = in[i]

C5_Multiplicity ==
    Done => LevelsCounted(item, output)

\* two consecutive `?` and a token after them: 3 + 2 * 2 tokens
C5_Witness ==
    /\ Done /\ pass = 1
    /\ Len(item) = 3
    /\ IsMarkerToken(item[1]) /\ IsMarkerToken(item[2])
    /\ ~IsMarkerToken(item[3]) /\ ~IsGroupToken(item[3])
    /\ Len(output) = 7
    /\ output[7] = item[3]

(***************************************************************************)
(* C9.  Every token that is not replaced keeps its span: identifiers,      *)
(* literals, other punctuation, and the groups that are returned.          *)
(***************************************************************************)
RECURSIVE SpansKept(_, _)
SpansKept(in, out) ==
    \A i \in 1..Len(in) :
        LET p == OutPos(in, i)
        IN  ~IsMarkerToken(in[i]) =>
                /\ p <= Len(out)
                /\ out[p].span = in[i].span
                /\ IsGroupToken(in[i]) =>
                    /\ IsGroupToken(out[p])
                    /\ SpansKept(in[i].stream, out[p].stream)

C9_SpansKept ==
    Done => SpansKept(item, output)

(***************************************************************************)
(* C6.  As stated: the non-marker tokens of the output are the non-marker  *)
(* tokens of the input, and the nesting depth and the group delimiters of  *)
(* the output are those of the input.                                      *)
(***************************************************************************)
\* the tokens of a stream, at all depths, that are neither groups nor markers
RECURSIVE LeafBag(_)
LeafBag(s) ==
    IF s = <<>> THEN EmptyBag
    ELSE (IF IsGroupToken(Head(s)) THEN LeafBag(Head(s).stream)
          ELSE IF IsMarkerToken(Head(s)) THEN EmptyBag
          ELSE SetToBag({Head(s)}))
         (+) LeafBag(Tail(s))

\* the delimiters of the groups of a stream, at all depths
RECURSIVE DelimBag(_)
DelimBag(s) ==
    IF s = <<>> THEN EmptyBag
    ELSE (IF IsGroupToken(Head(s))
          THEN SetToBag({Head(s).delim}) (+) DelimBag(Head(s).stream)
          ELSE EmptyBag)
         (+) DelimBag(Tail(s))

C6_Original ==
    Done => /\ LeafBag(output) = LeafBag(item)
            /\ DelimBag(output) = DelimBag(item)
            /\ Depth(output) = Depth(item)

(***************************************************************************)
(* C6, amended.  The leaf tokens of the output are the non-marker leaf     *)
(* tokens of the input and, for every `?`, one Joint `.` and one `unwrap`  *)
(* with its span; the groups of the output, with their delimiters and      *)
(* their nesting, are the groups of the input and one empty parenthesised  *)
(* group where each `?` was, so that the depth grows by at most one.       *)
(***************************************************************************)
\* what the expansions add to the leaf tokens
RECURSIVE AddedLeafBag(_)
AddedLeafBag(s) ==
    IF s = <<>> THEN EmptyBag
    ELSE (IF IsGroupToken(Head(s)) THEN AddedLeafBag(Head(s).stream)
          ELSE IF IsMarkerToken(Head(s))
          THEN SetToBag({DotToken(Head(s).span)})
               (+) SetToBag({UnwrapToken(Head(s).span)})
          ELSE EmptyBag)
         (+) AddedLeafBag(Tail(s))

\* the groups of a stream: delimiters and nesting, nothing else
RECURSIVE Skeleton(_)
Skeleton(s) ==
    IF s = <<>> THEN <<>>
    ELSE (IF IsGroupToken(Head(s))
          THEN <<[delim |-> Head(s).delim, inner |-> Skeleton(Head(s).stream)]>>
          ELSE <<>>)
         \o Skeleton(Tail(s))

\* the same, with an empty parenthesised group where each `?` is
RECURSIVE ExpandedSkeleton(_)
ExpandedSkeleton(s) ==
    IF s = <<>> THEN <<>>
    ELSE (IF IsGroupToken(Head(s))
          THEN <<[delim |-> Head(s).delim,
                  inner |-> ExpandedSkeleton(Head(s).stream)]>>
          ELSE IF IsMarkerToken(Head(s))
          THEN <<[delim |-> "Parenthesis", inner |-> <<>>]>>
          ELSE <<>>)
         \o ExpandedSkeleton(Tail(s))

C6_StructurePreserved ==
    Done => /\ LeafBag(output) = LeafBag(item) (+) AddedLeafBag(item)
            /\ Skeleton(output) = ExpandedSkeleton(item)
            /\ Depth(item) <= Depth(output)
            /\ Depth(output) <= Depth(item) + 1

\* a `?` at the deepest level, beside tokens that are kept: the depth grows
C6_Witness ==
    /\ Done /\ pass = 1
    /\ HasMarkerDeep(item)
    /\ LeafBag(item) # EmptyBag
    /\ Depth(item) >= 1
    /\ Depth(output) = Depth(item) + 1

(***************************************************************************)
(* C7.  process is total: while it runs a call of the closure is always    *)
(* possible and brings the end nearer (the work left decreases), it never  *)
(* panics, and the invocations active at once are never more than the      *)
(* nesting depth of the input plus one.                                    *)
(***************************************************************************)
\* the closure calls a stream still needs: three for a `?`, one for any
\* other token, and for a group also those of the nested invocation
RECURSIVE Work(_)
Work(s) ==
    IF s = <<>> THEN 0
    ELSE (IF IsMarkerToken(Head(s)) THEN 3
          ELSE IF IsGroupToken(Head(s)) THEN 2 + Work(Head(s).stream)
          ELSE 1)
         + Work(Tail(s))

RECURSIVE WorkLeft(_)
WorkLeft(st) ==
    IF st = <<>> THEN 0
    ELSE Work(Head(st).it) + Len(Head(st).tmp.buf) + 1 + WorkLeft(Tail(st))

Running == pc = "running"

C7_Bounded ==
    Running => /\ Len(stack) >= 1
               /\ Len(stack) <= Depth(item) + 1
               /\ ENABLED closure

C7_Progress ==
    Running => /\ pc' \in {"running", "done"}
               /\ WorkLeft(stack') < WorkLeft(stack)
               /\ pc' = "done" <=> WorkLeft(stack') = 0

C7_Total ==
    /\ []C7_Bounded
    /\ [][C7_Progress]_vars

\* a `?` read at the deepest level of an item of the greatest depth: every
\* invocation is active, and the group that is buffered is one level deeper
C7_Witness ==
    /\ Running /\ pass = 1
    /\ Depth(item) = MaxDepth
    /\ Len(stack) = Depth(item) + 1
    /\ Len(Top.tmp.buf) = 2

(***************************************************************************)
(* C8.  After a `?` is read and the `.` returned, the next two tokens      *)
(* returned are the buffered `unwrap` and the buffered empty group; no     *)
(* input token is read while the buffer holds a token; the buffer never    *)
(* holds more than two tokens and is cleared when the next input token is  *)
(* read; a buffered token is returned as it is, neither tested for being a *)
(* marker nor recursed into.                                               *)
(***************************************************************************)
Last(s) == s[Len(s)]

FrameBufferOK(f) ==
    /\ Len(f.tmp.buf) <= 2
    /\ f.tmp.buf # <<>> => f.tmp.some
    /\ Len(f.tmp.buf) = 2 =>
        /\ Len(f.out) >= 1
        /\ Last(f.out).kind = "Punct" /\ Last(f.out).ch = "."
        /\ f.tmp.buf = <<UnwrapToken(Last(f.out).span), CallToken(Last(f.out).span)>>
    /\ Len(f.tmp.buf) = 1 =>
        /\ Len(f.out) >= 2
        /\ Last(f.out) = UnwrapToken(Last(f.out).span)
        /\ f.out[Len(f.out) - 1] = DotToken(Last(f.out).span)
        /\ f.tmp.buf = <<CallToken(Last(f.out).span)>>

C8_BufferInvariant ==
    \A n \in 1..Len(stack) :
        /\ FrameBufferOK(stack[n])
        \* an invocation that waits for a nested one has cleared its buffer
        /\ n < Len(stack) => stack[n].tmp = None

C8_BufferStep ==
    Running =>
        IF Top.tmp.buf # <<>>
        THEN \* the buffered token is returned, and nothing else happens
             /\ pc' = "running"
             /\ Len(stack') = Len(stack)
             /\ stack'[Len(stack)].it = Top.it
             /\ stack'[Len(stack)].out = Append(Top.out, Head(Top.tmp.buf))
             /\ stack'[Len(stack)].tmp = Some(Tail(Top.tmp.buf))
             /\ SubSeq(stack', 1, Len(stack) - 1) = SubSeq(stack, 1, Len(stack) - 1)
        ELSE \* an input token is read (or the end is met), with the buffer
             \* cleared unless the token is a `?`, which fills it
             \/ pc' = "done"
             \/ Len(stack') = Len(stack) - 1
             \/ /\ Len(stack') >= Len(stack)
                /\ Top.it # <<>>
                /\ stack'[Len(stack)].it = Tail(Top.it)
                /\ IF IsMarkerToken(Head(Top.it))
                   THEN Len(stack'[Len(stack)].tmp.buf) = 2
                   ELSE stack'[Len(stack)].tmp = None

C8_BufferedEmission ==
    /\ []C8_BufferInvariant
    /\ [][C8_BufferStep]_vars

\* `unwrap` has been returned, the group is still buffered, and the input
\* of this invocation has a token left, a `?`, that is not read yet
C8_Witness ==
    /\ Running
    /\ Len(Top.tmp.buf) = 1
    /\ Top.it # <<>>
    /\ IsMarkerToken(Head(Top.it))
    /\ Len(stack) >= 2

(***************************************************************************)
(* C10.  The output holds no `?` token at any depth; and process applied   *)
(* to its own output returns it unchanged in kinds, delimiters, characters *)
(* and spacing (item is then the output of the first application).         *)
(***************************************************************************)
C10_Idempotent ==
    Done => /\ ~HasMarkerDeep(output)
            /\ pass = 2 => EraseSpans(output) = EraseSpans(item)

\* a second application to an output that holds an expansion inside a group
C10_Witness ==
    /\ Done /\ pass = 2
    /\ \E i \in 1..Len(item) :
        /\ IsGroupToken(item[i])
        /\ Len(item[i].stream) >= 3
        /\ \E span \in {item[i].stream[1].span} :
              SubSeq(item[i].stream, 1, 3) = Expansion(span)
    /\ output # item

====
